---- MODULE Spec2Model ----
(***************************************************************************)
(* recaller (lib/index.js): a promise-based retry loop.                    *)
(*                                                                         *)
(* One call recaller(fn, opts) is modelled.  The generator run by          *)
(* copromise is followed position by position (pc); the only suspension    *)
(* points are the pending operation (pc = "pending") and the pending       *)
(* timer (pc = "delay").  Every call the code makes to a collaborator      *)
(* (fn, bail, backoff, onretry, delay) is appended to trace.               *)
(***************************************************************************)
EXTENDS Integers, Sequences, FiniteSets, TLC

VARIABLES
    fn,         \* TRUE iff typeof fn === 'function'
    opts,       \* the options object: [retries, backoff, onretry]
    pc,         \* position of the call / of the generator
    retries,    \* const retries (line 49)
    bailed,     \* let bailed (line 51)
    attempt,    \* let attempt (line 52)
    err,        \* the err bound by the catch clause (line 65)
    delayTime,  \* let delayTime (line 67)
    timer,      \* milliseconds left of the pending delay(delayTime)
    inflight,   \* attempt numbers of the invocations of fn not yet settled
    result,     \* state of the promise recaller returns
    trace,      \* calls made so far, in order
    lib,        \* one backoff generator made by a factory of the library
    other,      \* the variables above (fn .. trace) of a second call of recaller
    cur         \* which of the two calls fn .. trace belong to: 1 or 2

vars == <<fn, opts, pc, retries, bailed, attempt, err, delayTime, timer,
          inflight, result, trace, lib, other, cur>>

----------------------------------------------------------------------------
(* Bounds of the inputs. *)

MaxRetries == 3     \* opts.retries ranges over undefined, 0..MaxRetries
MaxDelay == 1       \* a backoff function returns values in 0..MaxDelay
MaxReasons == 1     \* distinct error values handed to bail
MaxBails == 1       \* calls of bail within one recaller call

MaxBase == 3        \* opts.base ranges over undefined, 0..MaxBase
MaxCap == 4         \* opts.cap ranges over undefined, 0..MaxCap
MaxFactor == 2      \* opts.factor and opts.times: undefined, 0..MaxFactor
MaxAttempt == 3     \* a generator is called with attempt in 1..MaxAttempt
MaxGenCalls == 2    \* calls of one generator
RandomSteps == 8    \* Math.random() returns k / RandomSteps, k < RandomSteps

PairRetries == 1    \* opts.retries of each of two concurrent calls

(* Program constants. *)
DefaultRetries == 10
DefaultBase == 1000
DefaultCap == 60000
DefaultFactor == 2
DefaultTimes == 3

----------------------------------------------------------------------------
(* Values.  Every JavaScript value the model carries is a pair             *)
(* <<text, number>>; undefined is one of them.                             *)

Undefined == <<"undefined", 0>>
Error(message, n) == <<message, n>>

\* An optional number: <<>> is undefined, <<n>> is the number n.
None == <<>>
Some(n) == <<n>>

\* opts.onretry: not given, a falsy non-function (0, '', null, false),
\* a truthy non-function (123), or a function.
OnretryValues == {"undefined", "falsy", "value", "function"}

\* opts.backoff: not given, or the function <<first, later>> that returns
\* first for attempt 1 and later for every other attempt
BackoffValues ==
    {None} \cup {<<first, later>> : first \in 0..MaxDelay, later \in 0..MaxDelay}

RetriesValues == {None} \cup {Some(n) : n \in 0..MaxRetries}

OptsValues ==
    [retries : RetriesValues, backoff : BackoffValues, onretry : OnretryValues]

BailReasons == {Undefined} \cup {Error("bailed!", k) : k \in 1..MaxReasons}

----------------------------------------------------------------------------
(* Helpers translated from the expressions of recaller. *)

\* FnInvalid with the comparison inverted: typeof fn === 'function'
FnInvalidInverted(f) == f

\* typeof fn !== 'function'
FnInvalid(f) == ~f

\* typeof opts.onretry === 'function'
IsFunction(v) == v = "function"

\* JavaScript truthiness of opts.onretry
OnretryTruthy(v) == v \in {"value", "function"}

\* OnretryInvalid with the comparison inverted:
\* opts.onretry && typeof opts.onretry === 'function'
OnretryInvalidInverted(v) == OnretryTruthy(v) /\ IsFunction(v)

\* opts.onretry && typeof opts.onretry !== 'function'
OnretryInvalid(v) == OnretryTruthy(v) /\ ~IsFunction(v)

\* opts.retries || 10
RetriesOf(r) == IF r = None \/ r[1] = 0 THEN DefaultRetries ELSE r[1]

\* err || new Error('Bailed without giving a reason.')
BailError(e) ==
    IF e = Undefined THEN Error("Bailed without giving a reason.", 0) ELSE e

\* the value backoff(attempt) of a configured backoff function
BackoffCall(b, n) == IF n = 1 THEN b[1] ELSE b[2]

\* let delayTime = 0; if (backoff) { delayTime = backoff(attempt) }
DelayTimeOf(b, n) == IF b = None THEN 0 ELSE BackoffCall(b, n)

\* attempt > retries
Exhausted(n, r) == n > r

\* Settle without the promise's rule: every resolve / reject replaces the result
SettleAgain(p, state, value) == [state |-> state, value |-> value]

\* resolve(v) / reject(e) of the promise: only the first one settles it
Pending == [state |-> "pending", value |-> Undefined]
Settle(p, state, value) ==
    IF p.state = "pending" THEN [state |-> state, value |-> value] ELSE p

\* One entry of trace.
Event(ev, n, e, ms) == [ev |-> ev, n |-> n, err |-> e, ms |-> ms]

\* the error thrown by fn on attempt n, the value it resolves with, and
\* the error onretry throws when called for attempt n
FnError(n) == Error("fail", n)
FnValue(n) == <<"value", n>>
OnretryError(n) == Error("observer", n)

Bails == Len(SelectSeq(trace, LAMBDA e : e.ev = "bail"))

----------------------------------------------------------------------------
(* The backoff generators (lines 7-9 and 112-178).  The options are        *)
(* integers; a number that need not be an integer (Math.random(), and the  *)
(* half delay of equalJitterBackoff) is a fraction <<numerator,            *)
(* denominator>> with a positive denominator.                              *)

Q(n) == <<n, 1>>
QAdd(a, b) == <<a[1] * b[2] + b[1] * a[2], a[2] * b[2]>>
QSub(a, b) == <<a[1] * b[2] - b[1] * a[2], a[2] * b[2]>>
QMul(a, b) == <<a[1] * b[1], a[2] * b[2]>>
QLeq(a, b) == a[1] * b[2] <= b[1] * a[2]
\* Math.floor
QFloor(a) == a[1] \div a[2]
\* Math.min
Min(a, b) == IF a <= b THEN a ELSE b

\* the values of Math.random()
Randoms == {<<k, RandomSteps>> : k \in 0..(RandomSteps - 1)}

\* RandomBetween without the + 1: Math.floor(Math.random() * (max - min) + min)
RandomBetweenExclusive(r, min, max) ==
    QFloor(QAdd(QMul(r, QSub(max, min)), min))

\* Math.floor(Math.random() * (max - min + 1) + min)   (line 8)
RandomBetween(r, min, max) ==
    QFloor(QAdd(QMul(r, QAdd(QSub(max, min), Q(1))), min))

\* Math.pow(factor, k) for an integer k >= 0
RECURSIVE Pow(_, _)
Pow(f, k) == IF k = 0 THEN 1 ELSE f * Pow(f, k - 1)

\* opts.x || d
OrDefault(v, d) == IF v = None \/ v[1] = 0 THEN d ELSE v[1]

\* the options of a factory: base, cap and factor (times for
\* decorrelatedJitterBackoff), each one given or not
Optional(max) == {None} \cup {Some(n) : n \in 0..max}
GeneratorOpts ==
    [base : Optional(MaxBase), cap : Optional(MaxCap), factor : Optional(MaxFactor)]

\* ExponentialBackoff with the exponent off by one: Math.pow(factor, attempt)
ExponentialBackoffFromFactor(o, a) ==
    Min(OrDefault(o.cap, DefaultCap),
        OrDefault(o.base, DefaultBase) * Pow(OrDefault(o.factor, DefaultFactor), a))

\* exponentialBackoff(opts)(attempt)   (lines 112-123)
ExponentialBackoff(o, a) ==
    Min(OrDefault(o.cap, DefaultCap),
        OrDefault(o.base, DefaultBase) * Pow(OrDefault(o.factor, DefaultFactor), a - 1))

\* fullJitterBackoff(opts)(attempt)   (lines 133-136)
FullJitterBackoff(o, a, r) ==
    Q(RandomBetween(r, Q(0), Q(ExponentialBackoff(o, a))))

\* equalJitterBackoff(opts)(attempt)   (lines 146-152)
EqualJitterBackoff(o, a, r) ==
    LET halfDelay == <<ExponentialBackoff(o, a), 2>>
    IN  QAdd(halfDelay, Q(RandomBetween(r, Q(0), halfDelay)))

\* randomBetween(base, lastSleep * times) of decorrelatedJitterBackoff (line 174)
DecorrelatedDraw(o, lastSleep, r) ==
    RandomBetween(r, Q(OrDefault(o.base, DefaultBase)),
                     Q(lastSleep * OrDefault(o.factor, DefaultTimes)))

\* DecorrelatedSleep without Math.min(cap, ...)
DecorrelatedSleepUncapped(o, lastSleep, r) == DecorrelatedDraw(o, lastSleep, r)

\* const sleep = Math.min(cap, randomBetween(...))   (line 174)
DecorrelatedSleep(o, lastSleep, r) ==
    Min(OrDefault(o.cap, DefaultCap), DecorrelatedDraw(o, lastSleep, r))

\* no generator made yet
NoGenerator ==
    [kind |-> "none", opts |-> [base |-> None, cap |-> None, factor |-> None],
     calls |-> 0, arg |-> 0, rnd |-> Q(0), draw |-> 0, out |-> Q(0),
     before |-> 0, lastSleep |-> 0]

GeneratorKinds == {"exponential", "fullJitter", "equalJitter", "decorrelatedJitter"}

\* the variables of one call of recaller before the call is made: what the
\* executor declares (lines 44-57) belongs to that call
NotCalled ==
    [fn |-> FALSE,
     opts |-> [retries |-> None, backoff |-> None, onretry |-> "undefined"],
     pc |-> "idle", retries |-> 0, bailed |-> FALSE, attempt |-> 0,
     err |-> Undefined, delayTime |-> 0, timer |-> 0, inflight |-> {},
     result |-> Pending, trace |-> <<>>]

----------------------------------------------------------------------------
Init ==
    /\ fn = FALSE
    /\ opts = [retries |-> None, backoff |-> None, onretry |-> "undefined"]
    /\ pc = "idle"
    /\ retries = 0
    /\ bailed = FALSE
    /\ attempt = 0
    /\ err = Undefined
    /\ delayTime = 0
    /\ timer = 0
    /\ inflight = {}
    /\ result = Pending
    /\ trace = <<>>
    /\ lib = NoGenerator
    /\ other = NotCalled
    /\ cur = 1

\* recaller(fn, opts): lines 44-52 and the start of runner (line 82)
recaller(f, o) ==
    /\ pc = "idle"
    /\ fn' = f
    /\ opts' = o
    /\ IF FnInvalid(f)
         THEN /\ result' = Settle(result, "rejected", Error("fn is not a function", 0))
              /\ pc' = "done"
              /\ UNCHANGED retries
         ELSE IF OnretryInvalid(o.onretry)
         THEN /\ result' = Settle(result, "rejected",
                                  Error("onretry handler is not a function", 0))
              /\ pc' = "done"
              /\ UNCHANGED retries
         ELSE /\ retries' = RetriesOf(o.retries)
              /\ pc' = "loop"
              /\ UNCHANGED result
    /\ UNCHANGED <<bailed, attempt, err, delayTime, timer, inflight, trace>>

\* CallFn with the increment applied after the call: fn(bail, attempt++)
CallFnPostIncrement ==
    /\ pc = "loop"
    /\ attempt' = attempt + 1
    /\ trace' = Append(trace, Event("fn", attempt, Undefined, 0))
    /\ inflight' = inflight \cup {attempt}
    /\ pc' = "pending"
    /\ UNCHANGED <<fn, opts, retries, bailed, err, delayTime, timer, result>>

\* attempt++ ; yield fn(bail, attempt)   (lines 63-64)
CallFn ==
    /\ pc = "loop"
    /\ attempt' = attempt + 1
    /\ trace' = Append(trace, Event("fn", attempt + 1, Undefined, 0))
    /\ inflight' = inflight \cup {attempt + 1}
    /\ pc' = "pending"
    /\ UNCHANGED <<fn, opts, retries, bailed, err, delayTime, timer, result>>

\* Bail without the assignment bailed = true
BailFlagNotSet(e) ==
    /\ pc \in {"pending", "delay", "done"}
    /\ attempt >= 1
    /\ Bails < MaxBails
    /\ result' = Settle(result, "rejected", BailError(e))
    /\ trace' = Append(trace, Event("bail", attempt, e, 0))
    /\ UNCHANGED <<fn, opts, pc, retries, bailed, attempt, err, delayTime, timer,
                   inflight>>

\* Bail that only raises the flag and leaves the rejection to the loop
BailFlagOnly(e) ==
    /\ pc \in {"pending", "delay", "done"}
    /\ attempt >= 1
    /\ Bails < MaxBails
    /\ bailed' = TRUE
    /\ trace' = Append(trace, Event("bail", attempt, e, 0))
    /\ UNCHANGED <<fn, opts, pc, retries, attempt, err, delayTime, timer, inflight,
                   result>>

\* bail(e), called through the capability handed to fn (lines 54-57).  It can
\* run while the generator is suspended or after it has ended.
Bail(e) ==
    /\ pc \in {"pending", "delay", "done"}
    /\ attempt >= 1
    /\ Bails < MaxBails
    /\ bailed' = TRUE
    /\ result' = Settle(result, "rejected", BailError(e))
    /\ trace' = Append(trace, Event("bail", attempt, e, 0))
    /\ UNCHANGED <<fn, opts, pc, retries, attempt, err, delayTime, timer, inflight>>

\* FnResolves with the return dropped: yield fn(...) alone, so that the
\* generator goes round the loop again
FnResolvesNoReturn ==
    /\ pc = "pending"
    /\ inflight' = inflight \ {attempt}
    /\ trace' = Append(trace, Event("resolved", attempt, FnValue(attempt), 0))
    /\ pc' = IF attempt > retries THEN "done" ELSE "loop"
    /\ result' = IF attempt > retries
                   THEN Settle(result, "fulfilled", FnValue(attempt)) ELSE result
    /\ UNCHANGED <<fn, opts, retries, bailed, attempt, err, delayTime, timer>>

\* the promise of fn fulfils: return yield fn(...) (line 64), then
\* runner().then(resolve) (line 82)
FnResolves ==
    /\ pc = "pending"
    /\ inflight' = inflight \ {attempt}
    /\ trace' = Append(trace, Event("resolved", attempt, FnValue(attempt), 0))
    /\ result' = Settle(result, "fulfilled", FnValue(attempt))
    /\ pc' = "done"
    /\ UNCHANGED <<fn, opts, retries, bailed, attempt, err, delayTime, timer>>

\* the promise of fn rejects (or fn throws): catch (err) (line 65)
FnRejects ==
    /\ pc = "pending"
    /\ inflight' = inflight \ {attempt}
    /\ err' = FnError(attempt)
    /\ trace' = Append(trace, Event("rejected", attempt, FnError(attempt), 0))
    /\ pc' = "catch"
    /\ UNCHANGED <<fn, opts, retries, bailed, attempt, delayTime, timer, result>>

\* CatchBailed with the test of bailed placed after the call of backoff
CatchBailedAfterBackoff ==
    /\ pc = "catch"
    /\ bailed
    /\ trace' = IF opts.backoff = None THEN trace
                ELSE Append(trace, Event("backoff", attempt, Undefined,
                                         BackoffCall(opts.backoff, attempt)))
    /\ result' = Settle(result, "fulfilled", Undefined)
    /\ pc' = "done"
    /\ UNCHANGED <<fn, opts, retries, bailed, attempt, err, delayTime, timer,
                   inflight>>

\* if (bailed) return   (line 66), then runner().then(resolve) (line 82)
CatchBailed ==
    /\ pc = "catch"
    /\ bailed
    /\ result' = Settle(result, "fulfilled", Undefined)
    /\ pc' = "done"
    /\ UNCHANGED <<fn, opts, retries, bailed, attempt, err, delayTime, timer,
                   inflight, trace>>

\* let delayTime = 0; if (backoff) delayTime = backoff(attempt)  (lines 67-70)
Backoff ==
    /\ pc = "catch"
    /\ ~bailed
    /\ delayTime' = DelayTimeOf(opts.backoff, attempt)
    /\ trace' = IF opts.backoff = None THEN trace
                ELSE Append(trace, Event("backoff", attempt, Undefined,
                                         BackoffCall(opts.backoff, attempt)))
    /\ pc' = "check"
    /\ UNCHANGED <<fn, opts, retries, bailed, attempt, err, timer, inflight, result>>

\* GiveUp with the exhaustion test placed after the call of the observer
GiveUpAfterObserver ==
    /\ pc = "check"
    /\ Exhausted(attempt, retries)
    /\ trace' = IF OnretryTruthy(opts.onretry)
                  THEN Append(trace, Event("onretry", attempt, err, delayTime))
                  ELSE trace
    /\ result' = Settle(result, "rejected", err)
    /\ pc' = "done"
    /\ UNCHANGED <<fn, opts, retries, bailed, attempt, err, delayTime, timer,
                   inflight>>

\* if (attempt > retries) throw err  (lines 71-72), then
\* runner().catch(reject) (line 82)
GiveUp ==
    /\ pc = "check"
    /\ Exhausted(attempt, retries)
    /\ result' = Settle(result, "rejected", err)
    /\ pc' = "done"
    /\ UNCHANGED <<fn, opts, retries, bailed, attempt, err, delayTime, timer,
                   inflight, trace>>

\* OnRetry with the call of the observer wrapped in try/catch: what the
\* observer throws is dropped and the loop goes on
OnRetryCaught(throws) ==
    /\ pc = "check"
    /\ ~Exhausted(attempt, retries)
    /\ IF OnretryTruthy(opts.onretry)
         THEN trace' = IF throws
                         THEN trace \o <<Event("onretry", attempt, err, delayTime),
                                         Event("threw", attempt, OnretryError(attempt), 0)>>
                         ELSE Append(trace, Event("onretry", attempt, err, delayTime))
         ELSE ~throws /\ UNCHANGED trace
    /\ pc' = "sleep"
    /\ UNCHANGED <<fn, opts, retries, bailed, attempt, err, delayTime, timer,
                   inflight, result>>

\* if (opts.onretry) opts.onretry(err, attempt, delayTime)  (line 74);
\* the observer returns, or throws out of the generator (line 82)
OnRetry(throws) ==
    /\ pc = "check"
    /\ ~Exhausted(attempt, retries)
    /\ IF OnretryTruthy(opts.onretry)
         THEN IF throws
                THEN /\ trace' = trace \o <<Event("onretry", attempt, err, delayTime),
                                             Event("threw", attempt, OnretryError(attempt), 0)>>
                     /\ result' = Settle(result, "rejected", OnretryError(attempt))
                     /\ pc' = "done"
                ELSE /\ trace' = Append(trace, Event("onretry", attempt, err, delayTime))
                     /\ pc' = "sleep"
                     /\ UNCHANGED result
         ELSE /\ ~throws
              /\ pc' = "sleep"
              /\ UNCHANGED <<trace, result>>
    /\ UNCHANGED <<fn, opts, retries, bailed, attempt, err, delayTime, timer, inflight>>

\* Delay with the yield dropped: delay(delayTime) is started and not awaited
DelayNotAwaited ==
    /\ pc = "sleep"
    /\ IF delayTime # 0
         THEN /\ timer' = delayTime
              /\ trace' = Append(trace, Event("delay", attempt, Undefined, delayTime))
         ELSE UNCHANGED <<timer, trace>>
    /\ pc' = "loop"
    /\ UNCHANGED <<fn, opts, retries, bailed, attempt, err, delayTime, inflight, result>>

\* if (delayTime) yield delay(delayTime); continue  (lines 75-76)
Delay ==
    /\ pc = "sleep"
    /\ IF delayTime # 0
         THEN /\ timer' = delayTime
              /\ trace' = Append(trace, Event("delay", attempt, Undefined, delayTime))
              /\ pc' = "delay"
         ELSE /\ pc' = "loop"
              /\ UNCHANGED <<timer, trace>>
    /\ UNCHANGED <<fn, opts, retries, bailed, attempt, err, delayTime, inflight, result>>

\* one millisecond of the pending delay passes
Tick ==
    /\ pc = "delay"
    /\ timer > 0
    /\ timer' = timer - 1
    /\ UNCHANGED <<fn, opts, pc, retries, bailed, attempt, err, delayTime,
                   inflight, result, trace>>

\* DelayElapsed with the delay started anew instead of the generator resumed
DelayElapsedRearm ==
    /\ pc = "delay"
    /\ timer = 0
    /\ delayTime # 0
    /\ timer' = delayTime
    /\ UNCHANGED <<fn, opts, pc, retries, bailed, attempt, err, delayTime,
                   inflight, result, trace>>

\* the promise of delay(delayTime) fulfils once the time is over: the generator
\* resumes and continues; the event records the time that was left
DelayElapsed ==
    /\ pc = "delay"
    /\ timer = 0
    /\ trace' = Append(trace, Event("elapsed", attempt, Undefined, timer))
    /\ pc' = "loop"
    /\ UNCHANGED <<fn, opts, retries, bailed, attempt, err, delayTime, timer,
                   inflight, result>>

Next ==
    \/ UNCHANGED <<lib, other, cur>> /\ \E f \in BOOLEAN, o \in OptsValues : recaller(f, o)
    \/ UNCHANGED <<lib, other, cur>> /\ CallFn
    \/ UNCHANGED <<lib, other, cur>> /\ \E e \in BailReasons : Bail(e)
    \/ UNCHANGED <<lib, other, cur>> /\ FnResolves
    \/ UNCHANGED <<lib, other, cur>> /\ FnRejects
    \/ UNCHANGED <<lib, other, cur>> /\ CatchBailed
    \/ UNCHANGED <<lib, other, cur>> /\ Backoff
    \/ UNCHANGED <<lib, other, cur>> /\ GiveUp
    \/ UNCHANGED <<lib, other, cur>> /\ \E throws \in BOOLEAN : OnRetry(throws)
    \/ UNCHANGED <<lib, other, cur>> /\ Delay
    \/ UNCHANGED <<lib, other, cur>> /\ Tick
    \/ UNCHANGED <<lib, other, cur>> /\ DelayElapsed

Spec == Init /\ [][Next]_vars


\* the steps that are bound to happen: the synchronous code of runner, the
\* completion of a pending invocation of fn and the passing of a pending
\* delay; calls of recaller and of bail are up to the caller and to fn
Progress ==
    \/ UNCHANGED <<lib, other, cur>> /\ CallFn
    \/ UNCHANGED <<lib, other, cur>> /\ FnResolves
    \/ UNCHANGED <<lib, other, cur>> /\ FnRejects
    \/ UNCHANGED <<lib, other, cur>> /\ CatchBailed
    \/ UNCHANGED <<lib, other, cur>> /\ Backoff
    \/ UNCHANGED <<lib, other, cur>> /\ GiveUp
    \/ UNCHANGED <<lib, other, cur>> /\ \E throws \in BOOLEAN : OnRetry(throws)
    \/ UNCHANGED <<lib, other, cur>> /\ Delay
    \/ UNCHANGED <<lib, other, cur>> /\ Tick
    \/ UNCHANGED <<lib, other, cur>> /\ DelayElapsed

\* every invocation of fn completes and every delay elapses
LiveSpec == Spec /\ WF_vars(Progress)

----------------------------------------------------------------------------
(* Two calls of recaller at once.  JavaScript runs one continuation at a   *)
(* time: the call that runs owns fn .. trace, the other one waits in other *)
(* at a point where it is suspended.                                       *)

\* the variables of the call that runs
Running ==
    [fn |-> fn, opts |-> opts, pc |-> pc, retries |-> retries, bailed |-> bailed,
     attempt |-> attempt, err |-> err, delayTime |-> delayTime, timer |-> timer,
     inflight |-> inflight, result |-> result, trace |-> trace]

\* where a call gives way to other code: before the call, at yield fn(...),
\* at yield delay(...) and after the end of the generator
SuspensionPoints == {"idle", "pending", "delay", "done"}

\* the options of the two calls: no stateful generator, none shared
PairOpts ==
    [retries : {Some(PairRetries)}, backoff : {None, <<MaxDelay, 0>>},
     onretry : {"function"}]

\* Switch with let bailed declared outside recaller: one flag for both calls
SwitchSharedBailed ==
    /\ pc \in SuspensionPoints
    /\ fn' = other.fn /\ opts' = other.opts /\ pc' = other.pc
    /\ retries' = other.retries /\ attempt' = other.attempt
    /\ err' = other.err /\ delayTime' = other.delayTime /\ timer' = other.timer
    /\ inflight' = other.inflight /\ result' = other.result
    /\ trace' = other.trace
    /\ other' = Running
    /\ cur' = 3 - cur
    /\ UNCHANGED <<bailed, lib>>

\* the call that runs is suspended and the event loop goes on with the
\* other call: retries, bailed, attempt, bail and runner are declared inside
\* recaller (lines 44-59), so each call finds its own
Switch ==
    /\ pc \in SuspensionPoints
    /\ fn' = other.fn /\ opts' = other.opts /\ pc' = other.pc
    /\ retries' = other.retries /\ bailed' = other.bailed
    /\ attempt' = other.attempt
    /\ err' = other.err /\ delayTime' = other.delayTime /\ timer' = other.timer
    /\ inflight' = other.inflight /\ result' = other.result
    /\ trace' = other.trace
    /\ other' = Running
    /\ cur' = 3 - cur
    /\ UNCHANGED lib

PairNext ==
    \/ UNCHANGED <<lib, other, cur>> /\ \E f \in BOOLEAN, o \in PairOpts : recaller(f, o)
    \/ UNCHANGED <<lib, other, cur>> /\ CallFn
    \/ UNCHANGED <<lib, other, cur>> /\ \E e \in BailReasons : Bail(e)
    \/ UNCHANGED <<lib, other, cur>> /\ FnResolves
    \/ UNCHANGED <<lib, other, cur>> /\ FnRejects
    \/ UNCHANGED <<lib, other, cur>> /\ CatchBailed
    \/ UNCHANGED <<lib, other, cur>> /\ Backoff
    \/ UNCHANGED <<lib, other, cur>> /\ GiveUp
    \/ UNCHANGED <<lib, other, cur>> /\ \E throws \in BOOLEAN : OnRetry(throws)
    \/ UNCHANGED <<lib, other, cur>> /\ Delay
    \/ UNCHANGED <<lib, other, cur>> /\ Tick
    \/ UNCHANGED <<lib, other, cur>> /\ DelayElapsed
    \/ Switch

PairSpec == Init /\ [][PairNext]_vars

----------------------------------------------------------------------------
(* The generators on their own: a factory makes one generator, which is    *)
(* then called; recaller is not running.                                   *)

\* exponentialBackoff(o), fullJitterBackoff(o), equalJitterBackoff(o),
\* decorrelatedJitterBackoff(o): the closure made, with let lastSleep = base
\* (line 172)
MakeGenerator(kind, o) ==
    /\ lib.kind = "none"
    /\ lib' = [NoGenerator EXCEPT !.kind = kind, !.opts = o,
                                  !.lastSleep = OrDefault(o.base, DefaultBase)]

\* (attempt) => Math.min(cap, base * Math.pow(factor, attempt - 1))
CallExponential(a) ==
    /\ lib.kind = "exponential"
    /\ lib.calls < MaxGenCalls
    /\ lib' = [lib EXCEPT !.calls = @ + 1, !.arg = a,
                          !.out = Q(ExponentialBackoff(lib.opts, a))]

\* (attempt) => randomBetween(0, gen(attempt))
CallFullJitter(a, r) ==
    /\ lib.kind = "fullJitter"
    /\ lib.calls < MaxGenCalls
    /\ lib' = [lib EXCEPT !.calls = @ + 1, !.arg = a, !.rnd = r,
                          !.out = FullJitterBackoff(lib.opts, a, r)]

\* (attempt) => { halfDelay = gen(attempt) / 2; return halfDelay + randomBetween(0, halfDelay) }
CallEqualJitter(a, r) ==
    /\ lib.kind = "equalJitter"
    /\ lib.calls < MaxGenCalls
    /\ lib' = [lib EXCEPT !.calls = @ + 1, !.arg = a, !.rnd = r,
                          !.out = EqualJitterBackoff(lib.opts, a, r)]

\* () => { sleep = Math.min(cap, randomBetween(base, lastSleep * times));
\*         lastSleep = sleep; return sleep }   (lines 173-177)
CallDecorrelated(r) ==
    /\ lib.kind = "decorrelatedJitter"
    /\ lib.calls < MaxGenCalls
    /\ lib' = [lib EXCEPT !.calls = @ + 1, !.rnd = r,
                          !.before = lib.lastSleep,
                          !.draw = DecorrelatedDraw(lib.opts, lib.lastSleep, r),
                          !.lastSleep = DecorrelatedSleep(lib.opts, lib.lastSleep, r),
                          !.out = Q(DecorrelatedSleep(lib.opts, lib.lastSleep, r))]

\* recaller is not running
Idle ==
    UNCHANGED <<fn, opts, pc, retries, bailed, attempt, err, delayTime, timer,
                inflight, result, trace, other, cur>>

LibNext ==
    \/ Idle /\ \E kind \in GeneratorKinds, o \in GeneratorOpts : MakeGenerator(kind, o)
    \/ Idle /\ \E a \in 1..MaxAttempt : CallExponential(a)
    \/ Idle /\ \E a \in 1..MaxAttempt, r \in Randoms : CallFullJitter(a, r)
    \/ Idle /\ \E a \in 1..MaxAttempt, r \in Randoms : CallEqualJitter(a, r)
    \/ Idle /\ \E r \in Randoms : CallDecorrelated(r)

LibSpec == Init /\ [][LibNext]_vars

----------------------------------------------------------------------------
(* Vocabulary of the properties. *)

Calls(kind) == SelectSeq(trace, LAMBDA e : e.ev = kind)
Count(kind) == Len(Calls(kind))
Indices(kind) == {i \in 1..Len(trace) : trace[i].ev = kind}
Started == pc # "idle"
\* fn is a function and opts.onretry is not a truthy non-function
Valid == fn /\ opts.onretry # "value"

\* the retry budget R as the options state it: 10 when not configured
ConfiguredRetries == IF opts.retries = None THEN DefaultRetries ELSE opts.retries[1]

\* the run has ended by exhaustion: every attempt rejected, bail was never
\* called and the observer never threw
EndedByExhaustion ==
    /\ pc = "done" /\ Valid
    /\ Count("resolved") = 0 /\ Count("bail") = 0 /\ Count("threw") = 0

\* C1: with retries = R (10 when not configured) and an operation that
\* rejects on every attempt without bailing, fn is invoked exactly R + 1
\* times, never more, and the result is the rejection with the error of
\* attempt R + 1.
C1_Exhaustion ==
    /\ Count("fn") <= ConfiguredRetries + 1
    /\ EndedByExhaustion =>
          /\ Count("fn") = ConfiguredRetries + 1
          /\ result = [state |-> "rejected", value |-> FnError(ConfiguredRetries + 1)]

\* the first call of bail was made while an invocation of fn was pending
FirstBail == CHOOSE i \in Indices("bail") : \A j \in Indices("bail") : i <= j
BailedWhilePending ==
    /\ Indices("bail") # {}
    /\ trace[FirstBail - 1].ev = "fn"

\* C2: when bail(e) is called while attempt N is pending, the result is the
\* rejection with e (with the error "Bailed without giving a reason." when
\* e is not given) and fn is never invoked for attempt N + 1, whether
\* attempt N then resolves or rejects.
C2_BailPrecedence ==
    BailedWhilePending =>
        /\ result = [state |-> "rejected", value |-> BailError(trace[FirstBail].err)]
        /\ trace[FirstBail].err = Undefined =>
              result.value = Error("Bailed without giving a reason.", 0)
        /\ \A i \in Indices("fn") : i < FirstBail
        /\ Count("fn") = trace[FirstBail].n

C2_Witness ==
    /\ BailedWhilePending
    /\ pc = "done"
    /\ trace[FirstBail].n = 2
    /\ trace[FirstBail].err = Undefined
    /\ Count("rejected") = 2

\* C3: when fn resolves on attempt N and bail was not called before, the
\* result is the fulfilment with exactly that value and fn is not invoked
\* again; when attempt 1 resolves, fn has been invoked exactly once.
C3_SuccessShortCircuits ==
    \A i \in Indices("resolved") :
        (\A j \in Indices("bail") : j > i) =>
            /\ result = [state |-> "fulfilled", value |-> trace[i].err]
            /\ trace[i].err = FnValue(trace[i].n)
            /\ \A j \in Indices("fn") : j < i
            /\ Count("fn") = trace[i].n
            /\ pc = "done"

C3_Witness ==
    /\ Count("resolved") = 1
    /\ Calls("resolved")[1].n = 2
    /\ Indices("bail") # {}
    /\ \A i \in Indices("bail"), j \in Indices("resolved") : i > j

\* C4: the attempt numbers passed to fn are 1, 2, 3, ... in this order, and
\* every call of onretry gets the number of the attempt that has just
\* rejected; these numbers never repeat or decrease.
C4_AttemptNumbers ==
    /\ \A k \in 1..Count("fn") : Calls("fn")[k].n = k
    /\ \A i \in Indices("onretry") :
          /\ \E j \in Indices("rejected") :
                /\ j < i
                /\ trace[j].n = trace[i].n
                /\ \A m \in Indices("fn") \cup Indices("rejected") : m < i => m <= j
    /\ \A k \in 1..Count("onretry") - 1 :
          Calls("onretry")[k].n < Calls("onretry")[k + 1].n

C4_Witness ==
    /\ Count("fn") = 3
    /\ Count("onretry") = 2
    /\ Count("bail") = 1
    /\ Count("delay") = 1

\* C5: when onretry throws E after attempt N has rejected, the result is the
\* rejection with E and not with the error of fn, no delay is awaited and
\* fn is not invoked for attempt N + 1.
C5_ObserverAbort ==
    \A i \in Indices("threw") :
        /\ result = [state |-> "rejected", value |-> trace[i].err]
        /\ result.value # FnError(trace[i].n)
        /\ \A j \in Indices("delay") \cup Indices("fn") : j < i
        /\ Count("fn") = trace[i].n
        /\ pc = "done"

C5_Witness ==
    /\ Count("threw") = 1
    /\ Calls("threw")[1].n = 2
    /\ delayTime > 0

\* the catch clause of attempt n has run to its end
Handled(n) == attempt > n \/ (attempt = n /\ pc \notin {"pending", "catch", "check"})

\* C6: every attempt n <= retries that rejects without bail makes exactly
\* one call onretry(err of attempt n, n, delayTime), delayTime being the
\* value backoff(n) returned, or 0 without a backoff function; onretry is
\* not called for an attempt that resolved; with an operation that always
\* rejects onretry is called exactly retries times, for attempts 1..retries.
C6_ObserverCalls ==
    (Valid /\ opts.onretry = "function") =>
        /\ \A i \in Indices("onretry") :
              /\ trace[i].n <= ConfiguredRetries
              /\ trace[i].err = FnError(trace[i].n)
              /\ IF opts.backoff = None
                   THEN trace[i].ms = 0
                   ELSE /\ trace[i - 1].ev = "backoff"
                        /\ trace[i - 1].n = trace[i].n
                        /\ trace[i - 1].ms = trace[i].ms
              /\ \A j \in Indices("resolved") : trace[j].n # trace[i].n
        /\ \A j \in Indices("rejected") :
              ( /\ \A b \in Indices("bail") : b > j
                /\ trace[j].n <= ConfiguredRetries
                /\ Handled(trace[j].n) ) =>
                  Cardinality({i \in Indices("onretry") : trace[i].n = trace[j].n}) = 1
        /\ EndedByExhaustion =>
              /\ Count("onretry") = ConfiguredRetries
              /\ \A k \in 1..Count("onretry") : Calls("onretry")[k].n = k

\* C7: with retries = 0 fn is invoked exactly once; when that attempt
\* rejects the result is at once the rejection with its error: no retry,
\* no delay, no call of onretry.
C7_RetriesZero ==
    (Started /\ Valid /\ opts.retries = Some(0)) =>
        /\ Count("fn") <= 1
        /\ Count("onretry") = 0
        /\ Count("delay") = 0
        /\ (Count("rejected") = 1 /\ Count("bail") = 0 /\ Handled(1)) =>
              /\ pc = "done"
              /\ result = [state |-> "rejected", value |-> FnError(1)]

\* C8: a call of recaller with fn missing or not a function is rejected
\* within the call itself with "fn is not a function": the loop is not
\* entered, attempt stays 0 and neither fn nor backoff nor onretry is called.
C8_InvalidFn ==
    (Started /\ ~fn) =>
        /\ pc = "done"
        /\ result = [state |-> "rejected", value |-> Error("fn is not a function", 0)]
        /\ attempt = 0
        /\ trace = <<>>

C8_Witness ==
    /\ Started /\ ~fn
    /\ opts.onretry = "function"
    /\ opts.backoff # None
    /\ result.state = "rejected"

\* C9 as stated: every opts.onretry that is given and is not a function
\* makes recaller fail with "onretry handler is not a function" before any
\* attempt: fn is invoked zero times.
C9_NonCallableObserver ==
    (Started /\ fn /\ opts.onretry \in {"falsy", "value"}) =>
        /\ result = [state |-> "rejected",
                     value |-> Error("onretry handler is not a function", 0)]
        /\ Count("fn") = 0

\* C9, amended: a truthy opts.onretry that is not a function makes recaller
\* fail with "onretry handler is not a function" before any attempt (fn is
\* invoked zero times); a falsy opts.onretry (null, false, 0, '') counts as
\* no observer: the call is not rejected with that error and nothing is
\* ever called as an observer.
C9_TruthyNonCallableObserver ==
    (Started /\ fn) =>
        /\ opts.onretry = "value" =>
              /\ pc = "done"
              /\ result = [state |-> "rejected",
                           value |-> Error("onretry handler is not a function", 0)]
              /\ attempt = 0
              /\ trace = <<>>
        /\ opts.onretry = "falsy" =>
              /\ result.value # Error("onretry handler is not a function", 0)
              /\ Count("onretry") = 0
              /\ pc = "done" => Count("fn") >= 1

C9_Witness ==
    /\ Started /\ fn
    /\ opts.onretry = "value"
    /\ opts.retries = Some(0)
    /\ result.state = "rejected"

\* the calls in order, those of bail left out
Steps == SelectSeq(trace, LAMBDA e : e.ev # "bail")

\* what the code does next after the observer (called or not) has returned
AfterObserver(n) ==
    IF DelayTimeOf(opts.backoff, n) # 0 THEN "delay" ELSE "fn"
\* ... after backoff(n) has returned, or at once without a backoff function
AfterBackoff(n) ==
    IF opts.onretry = "function" THEN "onretry" ELSE AfterObserver(n)

\* b is what may come directly after a
Follows(a, b) ==
    /\ b.n = IF b.ev = "fn" THEN a.n + 1 ELSE a.n
    /\ CASE a.ev = "fn" -> b.ev \in {"resolved", "rejected"}
         [] a.ev = "rejected" ->
                b.ev = IF opts.backoff # None THEN "backoff" ELSE AfterBackoff(a.n)
         [] a.ev = "backoff" ->
                /\ a.ms = DelayTimeOf(opts.backoff, a.n)
                /\ b.ev = AfterBackoff(a.n)
         [] a.ev = "onretry" -> b.ev \in {"threw", AfterObserver(a.n)}
         [] a.ev = "delay" ->
                /\ a.ms = DelayTimeOf(opts.backoff, a.n)
                /\ b.ev = "elapsed" /\ b.ms = 0
         [] a.ev = "elapsed" -> b.ev = "fn"
         [] OTHER -> FALSE

\* C10: at most one invocation of fn is in flight; attempt N + 1 starts only
\* after attempt N has rejected, backoff has returned, onretry has returned
\* and the delay (when > 0) is over, in this order.
C10_Serialized ==
    /\ Cardinality(inflight) <= 1
    /\ inflight # {} <=> pc = "pending"
    /\ Steps # <<>> => Steps[1].ev = "fn" /\ Steps[1].n = 1
    /\ \A i \in 1..Len(Steps) - 1 : Follows(Steps[i], Steps[i + 1])
    /\ pc = "delay" => Steps[Len(Steps)].ev = "delay"
    /\ timer > 0 => pc = "delay"

C10_Witness ==
    /\ Count("fn") = 3
    /\ Count("backoff") = 2
    /\ Count("onretry") = 2
    /\ Count("delay") = 1
    /\ Calls("delay")[1].n = 2
    /\ Count("bail") = 1
    /\ pc = "pending"

\* C15: on the attempt that exhausts the budget (it rejects without bail and
\* attempt > retries) the delayTime computed from backoff has no effect: no
\* delay is awaited, onretry is not called and the result is at once the
\* rejection with the error of that attempt.
C15_ExhaustionIgnoresDelay ==
    \A j \in Indices("rejected") :
        ( /\ trace[j].n > retries
          /\ \A b \in Indices("bail") : b > j
          /\ Handled(trace[j].n) ) =>
            /\ pc = "done"
            /\ result = [state |-> "rejected", value |-> trace[j].err]
            /\ \A i \in (j + 1)..Len(trace) :
                  \/ trace[i].ev = "bail"
                  \/ trace[i].ev = "backoff" /\ i = j + 1
            /\ \A i \in Indices("onretry") \cup Indices("delay") :
                  trace[i].n # trace[j].n

C15_Witness ==
    /\ pc = "done"
    /\ Count("bail") = 0
    /\ opts.onretry = "function"
    /\ Len(trace) >= 2
    /\ trace[Len(trace)].ev = "backoff"
    /\ trace[Len(trace)].ms > 0
    /\ trace[Len(trace)].n = 3
    /\ result = [state |-> "rejected", value |-> FnError(3)]

\* C16 as stated: while the invocation of fn that called bail is still
\* pending, the result of recaller is not settled.
C16_NotSettledWhilePending ==
    (pc = "pending" /\ trace[Len(trace)].ev = "bail") => result.state = "pending"

\* C16, amended: a call of bail made while an invocation of fn is pending
\* rejects the result of recaller at once (with the error given, or the
\* default one, when nothing settled it before); it does not end that
\* invocation or the loop: the invocation stays in flight and the generator
\* stays suspended on it.
C16_BailSettlesAtOnce ==
    [][(pc = "pending" /\ Len(trace') > Len(trace) /\ trace'[Len(trace')].ev = "bail") =>
          /\ result'.state = "rejected"
          /\ result.state = "pending" =>
                result'.value = BailError(trace'[Len(trace')].err)
          /\ pc' = "pending"
          /\ inflight' = inflight /\ inflight' = {attempt}
          /\ attempt' = attempt]_vars

C16_Witness ==
    /\ pc = "pending"
    /\ attempt = 2
    /\ trace[Len(trace)].ev = "bail"
    /\ trace[Len(trace) - 1].ev = "fn"
    /\ result = [state |-> "rejected", value |-> BailError(Undefined)]

\* C17: once bail has been called, at whatever point of the sequence, fn is
\* never invoked again.
C17_NoCallAfterBail ==
    \A b \in Indices("bail"), j \in Indices("fn") : j < b

\* C18: when every invocation of fn completes and every awaited delay
\* elapses, a call of recaller leads to the end of the retry loop with the
\* result settled (fulfilled or rejected).
C18_Terminates == Started ~> (pc = "done" /\ result.state # "pending")

\* the loop has ended after three rejected attempts and two elapsed delays
C18_Witness ==
    /\ pc = "done" /\ result.state = "rejected"
    /\ Count("fn") = 3 /\ Count("rejected") = 3 /\ Count("elapsed") = 2
    /\ Count("bail") = 0

\* the calls of kind ev a call has made so far
Own(c, ev) == SelectSeq(c.trace, LAMBDA e : e.ev = ev)

\* what a call shows of itself follows from its own calls alone: its bail
\* flag is set iff its own bail was called, its attempt counter is the
\* number of its own invocations of fn, numbered 1, 2, ..., there are at
\* most retries + 1 of them, a rejection with a bail reason comes from its
\* own bail, and without one its result is the outcome of its own last
\* attempt
OwnState(c) ==
    /\ c.bailed = (Len(Own(c, "bail")) > 0)
    /\ c.attempt = Len(Own(c, "fn"))
    /\ \A k \in 1..Len(Own(c, "fn")) : Own(c, "fn")[k].n = k
    /\ Len(Own(c, "fn")) <= RetriesOf(c.opts.retries) + 1
    /\ (c.result.state = "rejected"
          /\ c.result.value \in {BailError(e) : e \in BailReasons})
         => Len(Own(c, "bail")) > 0
    /\ (c.pc = "done" /\ c.fn /\ Len(Own(c, "bail")) = 0) =>
         c.result \in {[state |-> "fulfilled", value |-> FnValue(c.attempt)],
                       [state |-> "rejected", value |-> FnError(c.attempt)],
                       [state |-> "rejected", value |-> OnretryError(c.attempt)]}

\* C19: of two calls of recaller whose steps interleave, each has its own
\* attempt counter, bail flag and result: a step of one call (a bail, a
\* failure, an exhaustion) leaves everything of the waiting call as it is,
\* a call that is resumed finds its variables as it left them, and what
\* each call shows follows from its own calls alone.
C19_NoSharedState ==
    [][/\ cur' = cur => other' = other
       /\ cur' # cur => (Running' = other /\ other' = Running)
       /\ OwnState(Running') /\ OwnState(other')]_vars

\* one call has bailed on its first attempt while the other one, after a
\* failure and a delay, is in its second attempt
C19_Witness ==
    /\ other.bailed /\ other.pc = "done" /\ other.attempt = 1
    /\ other.result.state = "rejected"
    /\ ~bailed /\ pc = "pending" /\ attempt = 2 /\ result = Pending
    /\ Len(Own(Running, "elapsed")) = 1

C20_BailedRejectionIsSilent ==
    \A j \in Indices("rejected") :
        ((\E b \in Indices("bail") : b < j) /\ pc # "catch") =>
            /\ pc = "done"
            /\ \A i \in (j + 1)..Len(trace) : trace[i].ev = "bail"
            /\ \A i \in Indices("backoff") \cup Indices("onretry") \cup Indices("delay") :
                  trace[i].n # trace[j].n

C20_Witness ==
    /\ pc = "done"
    /\ opts.onretry = "function"
    /\ opts.backoff = <<1, 1>>
    /\ Len(trace) >= 3
    /\ trace[Len(trace)].ev = "rejected"
    /\ trace[Len(trace)].n = 2
    /\ trace[Len(trace) - 1].ev = "bail"
    /\ trace[Len(trace) - 2].ev = "fn"

----------------------------------------------------------------------------
(* Properties of the backoff generators, read under LibSpec. *)

\* a parameter as the options state it: the default when it is not given
Given(v, d) == IF v = None THEN d ELSE v[1]
Called(kind) == lib.kind = kind /\ lib.calls >= 1

\* C11 as stated: exponentialBackoff({base, cap, factor})(attempt) equals
\* min(cap, base * factor^(attempt - 1)) for all parameters (defaults 1000,
\* 60000, 2 for those not given) and every attempt >= 1; it never exceeds
\* cap, and with the defaults f(1) = 1000, f(2) = 2000, f(3) = 4000.
C11_Exponential ==
    Called("exponential") =>
        LET base == Given(lib.opts.base, DefaultBase)
            cap == Given(lib.opts.cap, DefaultCap)
            factor == Given(lib.opts.factor, DefaultFactor)
        IN  /\ lib.out = Q(Min(cap, base * Pow(factor, lib.arg - 1)))
            /\ QLeq(lib.out, Q(cap))
            /\ (lib.opts.base = None /\ lib.opts.cap = None /\ lib.opts.factor = None
                  /\ lib.arg <= 3) =>
                  lib.out = Q(<<1000, 2000, 4000>>[lib.arg])

\* a parameter as the code reads it: the default when it is not given or 0
Effective(v, d) == IF v # None /\ v[1] # 0 THEN v[1] ELSE d

\* C11, amended: for parameters other than 0 (one not given, or given as 0,
\* takes its default 1000, 60000, 2) f(1) = base capped at cap and
\* f(attempt + 1) is f(attempt) * factor capped at cap as long as f(attempt)
\* is below cap; f never exceeds cap and with the defaults f(1) = 1000,
\* f(2) = 2000, f(3) = 4000.
C11_ExponentialNonZero ==
    Called("exponential") =>
        LET base == Effective(lib.opts.base, DefaultBase)
            cap == Effective(lib.opts.cap, DefaultCap)
            factor == Effective(lib.opts.factor, DefaultFactor)
            uncapped[k \in 1..(MaxAttempt + 1)] ==
                IF k = 1 THEN base ELSE uncapped[k - 1] * factor
            f == lib.out[1]
        IN  /\ lib.out[2] = 1
            /\ f = IF uncapped[lib.arg] <= cap THEN uncapped[lib.arg] ELSE cap
            /\ lib.arg = 1 => f = Min(cap, base)
            /\ lib.arg = 2 => f = Min(cap, base * factor)
            /\ lib.arg = 3 => f = Min(cap, base * factor * factor)
            /\ f <= cap
            /\ (lib.opts.base = None /\ lib.opts.cap = None /\ lib.opts.factor = None
                  /\ lib.arg <= 3) =>
                  f = <<1000, 2000, 4000>>[lib.arg]

C11_Witness ==
    /\ Called("exponential")
    /\ lib.opts = [base |-> Some(3), cap |-> Some(4), factor |-> Some(2)]
    /\ lib.arg = 2
    /\ lib.out = Q(4)

\* C12: half <= equalJitterBackoff(opts)(attempt) <= exponential(attempt),
\* with exponential = exponentialBackoff(opts) and half =
\* exponential(attempt) / 2, also when exponential(attempt) is odd.
C12_EqualJitterRange ==
    Called("equalJitter") =>
        LET exponential == ExponentialBackoff(lib.opts, lib.arg)
        IN  /\ QLeq(<<exponential, 2>>, lib.out)
            /\ QLeq(lib.out, Q(exponential))

====
